---- MODULE Spec2Model ----
(***************************************************************************)
(* Model of demo/model_comparison.py: the response parser                  *)
(* (_extract_entities_from_response), the comparator (compare_entities)    *)
(* the dispatcher (extract_entities_single / extract_entities_both) and     *)
(* the scorer (calculate_metrics).                                         *)
(*                                                                         *)
(* A response text is a sequence of lexemes.  A lexeme is a record         *)
(* [k, s]: k is its kind ("p" punctuation, "str" a JSON string literal     *)
(* whose content is s, "num" a JSON number, "sp" a blank, "nl" a line      *)
(* break, "txt" any other run of characters) and s its characters.  The    *)
(* regular expression, json.loads, str.find, slicing, str.strip and        *)
(* str.split are all computed on lexeme sequences.                         *)
(***************************************************************************)
EXTENDS Integers, Sequences, FiniteSets, TLC

VARIABLES
    response_text,   \* parser: the argument of _extract_entities_from_response
    layout,          \* parser: how response_text was put together (history)
    parsed,          \* parser: the outcome of the call, once made
    base_entities,   \* comparator: first argument of compare_entities
    lora_entities,   \* comparator: second argument of compare_entities
    comparison,      \* comparator: the last call (history of its arguments, result)
    first_call,      \* comparator: the first call (history)
    endpoint,        \* dispatcher: what each endpoint answers, and the requests it got
    task,            \* dispatcher: the two futures of extract_entities_both
    main_pc,         \* dispatcher: position of the caller in extract_entities_both
    base_result,     \* dispatcher: local of extract_entities_both
    lora_result,     \* dispatcher: local of extract_entities_both
    returned,        \* dispatcher: what extract_entities_both handed to its caller
    finished,        \* dispatcher: the tasks in the order they completed (history)
    ground_truth,    \* scorer: first argument of calculate_metrics
    predictions,     \* scorer: second argument of calculate_metrics
    metrics          \* scorer: the outcome of the call, once made

vars == <<response_text, layout, parsed, base_entities, lora_entities,
          comparison, first_call, endpoint, task, main_pc, base_result,
          lora_result, returned, finished, ground_truth, predictions, metrics>>

parserVars == <<response_text, layout, parsed>>
compareVars == <<base_entities, lora_entities, comparison, first_call>>
dispatchVars == <<endpoint, task, main_pc, base_result, lora_result, returned, finished>>
metricsVars == <<ground_truth, predictions, metrics>>

(***************************************************************************)
(* Lexemes                                                                 *)
(***************************************************************************)
P(c) == [k |-> "p", s |-> c]
S(c) == [k |-> "str", s |-> c]
N(c) == [k |-> "num", s |-> c]
SP == [k |-> "sp", s |-> " "]
NL == [k |-> "nl", s |-> "\n"]
TXT(c) == [k |-> "txt", s |-> c]

THINK_OPEN == TXT("<think>")
THINK_CLOSE == TXT("</think>")

\* Number of characters of a lexeme; a string literal carries its two quotes.
CharLen(tok) == IF tok.k = "str" THEN Len(tok.s) + 2 ELSE Len(tok.s)

\* String contents that hold a closing bracket character.
BracketStrings == {"a]b"}

\* The lexeme holds the character "]" (the regular expression's [^\]] stops there).
HasRBracket(tok) ==
    \/ tok = P("]")
    \/ tok.k = "str" /\ tok.s \in BracketStrings

\* Python's whitespace as far as \s, str.strip and json agree on it.
IsWs(tok) == tok.k \in {"sp", "nl"}

(***************************************************************************)
(* JSON values: [t, v] with t the type and v the payload.                  *)
(***************************************************************************)
JStr(c) == [t |-> "str", v |-> c]
JNum(c) == [t |-> "num", v |-> c]
JArr(seq) == [t |-> "arr", v |-> seq]
JObj(f) == [t |-> "obj", v |-> f]
EmptyDict == <<>>

IsDict(x) == x.t = "obj"
IsList(x) == x.t = "arr"

\* dict.get(key, '') on a parsed object
DictGet(obj, key) == IF key \in DOMAIN obj.v THEN obj.v[key] ELSE JStr("")

(***************************************************************************)
(* json.loads on a lexeme sequence: a recursive-descent reading of one     *)
(* JSON value.  A result is [ok, val, pos]; ok = FALSE is JSONDecodeError. *)
(***************************************************************************)
JFail == [ok |-> FALSE, val |-> JStr(""), pos |-> 0]
JOk(val, pos) == [ok |-> TRUE, val |-> val, pos |-> pos]

\* The least element of a non-empty set of integers.
Min(set) == CHOOSE x \in set : \A y \in set : x <= y
\* The greatest element of a non-empty set of integers.
Max(set) == CHOOSE x \in set : \A y \in set : x >= y

\* Index of the first lexeme at or after i that is not whitespace (Len+1 if none).
SkipWs(toks, i) ==
    Min({ j \in i..Len(toks) : ~IsWs(toks[j]) } \cup {Len(toks) + 1})

RECURSIVE ParseValue(_, _)
RECURSIVE ParseMembers(_, _, _)
RECURSIVE ParseElements(_, _, _)

\* One JSON value starting at or after i.
ParseValue(toks, i) ==
    LET Object(m) ==
            IF m <= Len(toks) /\ toks[m] = P("}")
            THEN JOk(JObj(EmptyDict), m + 1)
            ELSE ParseMembers(toks, m, EmptyDict)
        Array(m) ==
            IF m <= Len(toks) /\ toks[m] = P("]")
            THEN JOk(JArr(<<>>), m + 1)
            ELSE ParseElements(toks, m, <<>>)
        At(j) ==
            IF j > Len(toks) THEN JFail
            ELSE CASE toks[j].k = "str" -> JOk(JStr(toks[j].s), j + 1)
                   [] toks[j].k = "num" -> JOk(JNum(toks[j].s), j + 1)
                   [] toks[j] = P("{") -> Object(SkipWs(toks, j + 1))
                   [] toks[j] = P("[") -> Array(SkipWs(toks, j + 1))
                   [] OTHER -> JFail
    IN  At(SkipWs(toks, i))

\* The members of an object, the key of the next one expected at i; a repeated
\* key keeps its last value, as a Python dict does.
ParseMembers(toks, i, acc) ==
    LET After(acc2, e) ==
            IF e > Len(toks) THEN JFail
            ELSE IF toks[e] = P("}") THEN JOk(JObj(acc2), e + 1)
            ELSE IF toks[e] = P(",") THEN ParseMembers(toks, SkipWs(toks, e + 1), acc2)
            ELSE JFail
        Value(r) ==
            IF ~r.ok THEN JFail
            ELSE After((toks[i].s :> r.val) @@ acc, SkipWs(toks, r.pos))
        Colon(c) ==
            IF c > Len(toks) \/ toks[c] # P(":") THEN JFail
            ELSE Value(ParseValue(toks, c + 1))
    IN  IF i > Len(toks) \/ toks[i].k # "str" THEN JFail
        ELSE Colon(SkipWs(toks, i + 1))

\* The elements of an array, the next one expected at i.
ParseElements(toks, i, acc) ==
    LET After(acc2, e) ==
            IF e > Len(toks) THEN JFail
            ELSE IF toks[e] = P("]") THEN JOk(JArr(acc2), e + 1)
            ELSE IF toks[e] = P(",") THEN ParseElements(toks, e + 1, acc2)
            ELSE JFail
        Value(r) ==
            IF ~r.ok THEN JFail
            ELSE After(Append(acc, r.val), SkipWs(toks, r.pos))
    IN  Value(ParseValue(toks, i))

\* json.loads(s): one value, then nothing but whitespace.
JsonLoads(toks) ==
    LET Whole(r) ==
            IF r.ok /\ SkipWs(toks, r.pos) > Len(toks)
            THEN [ok |-> TRUE, val |-> r.val]
            ELSE [ok |-> FALSE, val |-> JStr("")]
    IN  Whole(ParseValue(toks, 1))

(***************************************************************************)
(* re.findall(json_pattern, clean_text, re.DOTALL).  json_pattern reads:   *)
(* an opening brace, the literal "entities" in quotes, a colon, an opening *)
(* bracket, group 1 = the longest run of characters other than a closing   *)
(* bracket, a closing bracket, a closing brace; whitespace is allowed      *)
(* between any two of these.                                               *)
(***************************************************************************)
\* Index of the first lexeme at or after i that holds "]" (Len+1 if none).
InnerEnd(toks, i) ==
    Min({ j \in i..Len(toks) : HasRBracket(toks[j]) } \cup {Len(toks) + 1})

\* The pattern tried at position i: [ok, inner (group 1), next (index after the match)].
JsonPatternMatchAt(toks, i) ==
    LET Brace(c, d, e) ==
            IF e <= Len(toks) /\ toks[e] = P("}")
            THEN [ok |-> TRUE, inner |-> SubSeq(toks, c + 1, d - 1), next |-> e + 1]
            ELSE [ok |-> FALSE, inner |-> <<>>, next |-> i + 1]
        Close(c, d) ==
            IF d <= Len(toks) /\ toks[d] = P("]")
            THEN Brace(c, d, SkipWs(toks, d + 1))
            ELSE [ok |-> FALSE, inner |-> <<>>, next |-> i + 1]
        Open(c) ==
            IF c <= Len(toks) /\ toks[c] = P("[")
            THEN Close(c, InnerEnd(toks, c + 1))
            ELSE [ok |-> FALSE, inner |-> <<>>, next |-> i + 1]
        Colon(b) ==
            IF b <= Len(toks) /\ toks[b] = P(":")
            THEN Open(SkipWs(toks, b + 1))
            ELSE [ok |-> FALSE, inner |-> <<>>, next |-> i + 1]
        Name(a) ==
            IF a <= Len(toks) /\ toks[a] = S("entities")
            THEN Colon(SkipWs(toks, a + 1))
            ELSE [ok |-> FALSE, inner |-> <<>>, next |-> i + 1]
    IN  IF toks[i] = P("{")
        THEN Name(SkipWs(toks, i + 1))
        ELSE [ok |-> FALSE, inner |-> <<>>, next |-> i + 1]

RECURSIVE FindAllFrom(_, _, _)
\* The matches that start at or after i, after those of acc: the leftmost
\* match is taken and the search goes on behind it.
FindAllFrom(toks, i, acc) ==
    LET Take(m) == FindAllFrom(toks, m.next, Append(acc, m.inner))
        From(starts) ==
            IF starts = {} THEN acc ELSE Take(JsonPatternMatchAt(toks, Min(starts)))
    IN  From({ j \in i..Len(toks) : toks[j] = P("{") /\ JsonPatternMatchAt(toks, j).ok })

\* The non-overlapping matches, left to right, each given by its group 1.
ReFindAll(toks) == FindAllFrom(toks, 1, <<>>)

(***************************************************************************)
(* str operations on lexeme sequences                                      *)
(***************************************************************************)
\* needle in text
StrContains(toks, needle) == \E i \in 1..Len(toks) : toks[i] = needle

RECURSIVE CharOffset(_, _)
\* The number of characters in front of lexeme i.
CharOffset(toks, i) ==
    IF i <= 1 THEN 0 ELSE CharOffset(toks, i - 1) + CharLen(toks[i - 1])

\* text.find(needle): the character offset of the first occurrence, or -1.
StrFind(toks, needle) ==
    LET At(places) == IF places = {} THEN -1 ELSE CharOffset(toks, Min(places))
    IN  At({ i \in 1..Len(toks) : toks[i] = needle })

RECURSIVE SliceFrom(_, _)
\* text[n:]: the text without its first n characters.  A cut inside a lexeme
\* leaves the rest of that lexeme as plain characters.
SliceFrom(toks, n) ==
    IF n <= 0 \/ toks = <<>> THEN toks
    ELSE IF n >= CharLen(Head(toks)) THEN SliceFrom(Tail(toks), n - CharLen(Head(toks)))
    ELSE <<TXT("~")>> \o Tail(toks)

\* The length of the literal '</think>' skipped at line 126.
ThinkCloseLen == 8

\* text.strip()
StrStrip(toks) ==
    SubSeq(toks, SkipWs(toks, 1),
           Max({ j \in 1..Len(toks) : ~IsWs(toks[j]) } \cup {0}))

\* text.split('\n'): the pieces between the line breaks.
SplitLines(toks) ==
    LET Pieces(breaks) ==
            LET Break(k) ==
                    IF k = 0 THEN 0
                    ELSE IF k > Cardinality(breaks) THEN Len(toks) + 1
                    ELSE CHOOSE b \in breaks :
                             Cardinality({ c \in breaks : c < b }) = k - 1
            IN  [ k \in 1..(Cardinality(breaks) + 1) |->
                    SubSeq(toks, Break(k - 1) + 1, Break(k) - 1) ]
    IN  Pieces({ i \in 1..Len(toks) : toks[i] = NL })

StartsWithBrace(toks) == toks # <<>> /\ Head(toks) = P("{")
EndsWithBrace(toks) == toks # <<>> /\ toks[Len(toks)] = P("}")

(***************************************************************************)
(* Python values handed to the parser: a str, or something that is not.    *)
(***************************************************************************)
PyStr(toks) == [py |-> "str", toks |-> toks]
PyNone == [py |-> "NoneType", toks |-> <<>>]

(***************************************************************************)
(* _extract_entities_from_response, lines 115-171                          *)
(***************************************************************************)
\* Lines 121-126: drop the reasoning section.
CleanText(text) ==
    LET After(think_end) ==
            IF think_end >= 0 THEN SliceFrom(text, think_end + ThinkCloseLen) ELSE text
    IN  IF StrContains(text, THINK_OPEN) THEN After(StrFind(text, THINK_CLOSE)) ELSE text

\* Line 137: the reconstructed document.
JsonStr(match) ==
    <<P("{"), S("entities"), P(":"), SP, P("[")>> \o match \o <<P("]"), P("}")>>

\* Lines 139: "entities" in data and isinstance(data["entities"], list)
HasEntitiesList(data) ==
    /\ IsDict(data)
    /\ "entities" \in DOMAIN data.v
    /\ IsList(data.v["entities"])

RECURSIVE ExtendFromFirstMatch(_, _, _)
\* A variant of lines 133-142 that stops at the first match whose document parses.
ExtendFromFirstMatch(matches, i, entities) ==
    LET Step(data) ==
            IF data.ok /\ HasEntitiesList(data.val)
            THEN entities \o data.val.v["entities"].v
            ELSE ExtendFromFirstMatch(matches, i + 1, entities)
    IN  IF i > Len(matches) THEN entities ELSE Step(JsonLoads(JsonStr(matches[i])))

RECURSIVE ExtendUntilBadMatch(_, _, _)
\* A variant of lines 133-142 that leaves the loop at the first match whose
\* document does not parse (break where the code has continue).
ExtendUntilBadMatch(matches, i, entities) ==
    LET Step(data) ==
            IF ~data.ok THEN entities
            ELSE IF HasEntitiesList(data.val)
            THEN ExtendUntilBadMatch(matches, i + 1, entities \o data.val.v["entities"].v)
            ELSE ExtendUntilBadMatch(matches, i + 1, entities)
    IN  IF i > Len(matches) THEN entities ELSE Step(JsonLoads(JsonStr(matches[i])))

RECURSIVE ExtendFromMatches(_, _, _)
\* Lines 133-142: the entities of every match whose document parses.
ExtendFromMatches(matches, i, entities) ==
    LET Step(data) ==
            IF data.ok /\ HasEntitiesList(data.val)
            THEN ExtendFromMatches(matches, i + 1, entities \o data.val.v["entities"].v)
            ELSE ExtendFromMatches(matches, i + 1, entities)
    IN  IF i > Len(matches) THEN entities ELSE Step(JsonLoads(JsonStr(matches[i])))

RECURSIVE LineScanLast(_, _)
\* A variant of lines 146-155 that scans every line and keeps the last
\* document with an "entities" field.
LineScanLast(lines, i) ==
    LET Later(here, rest) == IF rest.found THEN rest ELSE here
        Loaded(data) ==
            IF data.ok /\ IsDict(data.val) /\ "entities" \in DOMAIN data.val.v
            THEN Later([found |-> TRUE, val |-> data.val.v["entities"]],
                       LineScanLast(lines, i + 1))
            ELSE LineScanLast(lines, i + 1)
        Stripped(line) ==
            IF StartsWithBrace(line) /\ EndsWithBrace(line)
            THEN Loaded(JsonLoads(line))
            ELSE LineScanLast(lines, i + 1)
    IN  IF i > Len(lines) THEN [found |-> FALSE, val |-> JArr(<<>>)]
        ELSE Stripped(StrStrip(lines[i]))

RECURSIVE LineScan(_, _)
\* Lines 146-155: the first line that is a document with an "entities" field.
LineScan(lines, i) ==
    LET Loaded(data) ==
            IF data.ok /\ IsDict(data.val) /\ "entities" \in DOMAIN data.val.v
            THEN [found |-> TRUE, val |-> data.val.v["entities"]]
            ELSE LineScan(lines, i + 1)
        Stripped(line) ==
            IF StartsWithBrace(line) /\ EndsWithBrace(line)
            THEN Loaded(JsonLoads(line))
            ELSE LineScan(lines, i + 1)
    IN  IF i > Len(lines) THEN [found |-> FALSE, val |-> JArr(<<>>)]
        ELSE Stripped(StrStrip(lines[i]))

\* What an f-string makes of a JSON value: a string as it is, a number by its
\* digits.  Other values (their repr) do not occur as name or type in the
\* inputs of this model.
FormatValue(x) == IF x.t \in {"str", "num"} THEN x.v ELSE "<" \o x.t \o ">"

\* Line 161 (and 217-220, 253-256): the key of an entity.
EntityKey(entity) ==
    FormatValue(DictGet(entity, "name")) \o "|" \o FormatValue(DictGet(entity, "type"))

RECURSIVE UniqueFrom(_, _, _, _)
UniqueFrom(entities, i, seen, unique_entities) ==
    LET Step(key) ==
            IF key \notin seen
            THEN UniqueFrom(entities, i + 1, seen \cup {key},
                            Append(unique_entities, entities[i]))
            ELSE UniqueFrom(entities, i + 1, seen, unique_entities)
    IN  IF i > Len(entities) THEN unique_entities ELSE Step(EntityKey(entities[i]))

\* Lines 158-166: first occurrence of each key; entity.get on an element that
\* is not a dict raises AttributeError.
UniqueEntities(entities) ==
    IF \E i \in 1..Len(entities) : ~IsDict(entities[i])
    THEN [exc |-> "AttributeError", val |-> <<>>]
    ELSE [exc |-> "none", val |-> UniqueFrom(entities, 1, {}, <<>>)]

\* Lines 119-166, the body of the try: [exc, ret, entities], exc the exception
\* that left the body ("none": it returned ret), entities the list accumulated
\* by then.
TryBody(resp) ==
    LET Dedup(entities, uniq) ==
            IF uniq.exc # "none"
            THEN [exc |-> uniq.exc, ret |-> JArr(<<>>), entities |-> entities]
            ELSE [exc |-> "none", ret |-> JArr(uniq.val), entities |-> entities]
        Fallback(entities, scan) ==
            IF scan.found
            THEN [exc |-> "none", ret |-> scan.val, entities |-> entities]
            ELSE Dedup(entities, UniqueEntities(entities))
        Accumulated(clean_text, entities) ==
            IF entities = <<>>
            THEN Fallback(entities, LineScan(SplitLines(StrStrip(clean_text)), 1))
            ELSE Dedup(entities, UniqueEntities(entities))
        Cleaned(clean_text) ==
            Accumulated(clean_text, ExtendFromMatches(ReFindAll(clean_text), 1, <<>>))
    IN  IF resp.py # "str"
        THEN [exc |-> "TypeError", ret |-> JArr(<<>>), entities |-> <<>>]
        ELSE Cleaned(CleanText(resp.toks))

\* A variant of lines 168-171 whose handler catches nothing: the exception of
\* the body reaches the caller.
ExtractWithoutSwallow(resp) ==
    LET Handle(body) ==
            IF body.exc = "none"
            THEN [raised |-> FALSE, val |-> body.ret]
            ELSE [raised |-> TRUE, val |-> JArr(<<>>)]
    IN  Handle(TryBody(resp))

\* Lines 168-171: any Exception is swallowed and the accumulated list returned.
\* The outcome is [raised, val]: raised = TRUE is an exception reaching the caller.
ExtractEntitiesFromResponse(resp) ==
    LET Handle(body) ==
            IF body.exc = "none"
            THEN [raised |-> FALSE, val |-> body.ret]
            ELSE [raised |-> FALSE, val |-> JArr(body.entities)]
    IN  Handle(TryBody(resp))

(***************************************************************************)
(* Inputs of the parser: response texts built from lines.                  *)
(***************************************************************************)
Entity(name, type) == JObj("name" :> JStr(name) @@ "type" :> JStr(type))

EntA == Entity("a", "x")
EntB == Entity("b", "x")
EntT == Entity("t", "x")
EntNoType == JObj("name" :> JStr("a"))
EntBar1 == Entity("a|b", "c")
EntBar2 == Entity("a", "b|c")
EntBracket == Entity("a]b", "x")
EntR == Entity("r", "x")

\* The text of one entity object, fields in the order name, type.
EntityToks(e) ==
    LET nm == IF "name" \in DOMAIN e.v
              THEN <<S("name"), P(":"), SP, S(e.v["name"].v)>> ELSE <<>>
        ty == IF "type" \in DOMAIN e.v
              THEN <<S("type"), P(":"), SP, S(e.v["type"].v)>> ELSE <<>>
        sep == IF nm # <<>> /\ ty # <<>> THEN <<P(","), SP>> ELSE <<>>
    IN  <<P("{")>> \o nm \o sep \o ty \o <<P("}")>>

RECURSIVE EntitiesToks(_)
\* The texts of the entities, separated by commas.
EntitiesToks(es) ==
    IF es = <<>> THEN <<>>
    ELSE IF Len(es) = 1 THEN EntityToks(es[1])
    ELSE EntityToks(es[1]) \o <<P(","), SP>> \o EntitiesToks(Tail(es))

\* The text {"entities": [e1, e2, ...]} on one line.
BlockToks(es) ==
    <<P("{"), S("entities"), P(":"), SP, P("[")>> \o EntitiesToks(es) \o <<P("]"), P("}")>>

SENTINEL == TXT("no entities found")

\* A line of a response: kind "valid" is one well-formed block of entity
\* records without a closing bracket inside, "prose" holds no JSON, anything
\* else is a noisy line.  ents are the entities a valid block holds.
Line(kind, ents, toks) == [kind |-> kind, ents |-> ents, toks |-> toks]

LineOf(id) ==
    CASE id = "sentinel" -> Line("prose", <<>>, <<SENTINEL>>)
      [] id = "block_a_b" -> Line("valid", <<EntA, EntB>>, BlockToks(<<EntA, EntB>>))
      [] id = "block_b_a" -> Line("valid", <<EntB, EntA>>, BlockToks(<<EntB, EntA>>))
      [] id = "block_a_a" -> Line("valid", <<EntA, EntA>>, BlockToks(<<EntA, EntA>>))
      [] id = "block_bars" ->
           Line("valid", <<EntBar1, EntBar2>>, BlockToks(<<EntBar1, EntBar2>>))
      [] id = "block_notype" -> Line("valid", <<EntNoType>>, BlockToks(<<EntNoType>>))
      [] id = "block_empty" -> Line("valid", <<>>, BlockToks(<<>>))
      \* a valid block after some prose on the same line
      [] id = "prose_block_b" ->
           Line("valid", <<EntB>>, <<TXT("result:"), SP>> \o BlockToks(<<EntB>>))
      \* a valid block printed over several lines
      [] id = "pretty_a_t" ->
           Line("valid", <<EntA, EntT>>,
                <<P("{"), NL, SP, S("entities"), SP, P(":"), SP, P("["), NL>>
                  \o EntityToks(EntA) \o <<P(","), NL>> \o EntityToks(EntT)
                  \o <<NL, P("]"), NL, P("}")>>)
      \* a trailing comma: the pattern matches, the document does not parse
      [] id = "trailing_comma" ->
           Line("badjson", <<>>,
                <<P("{"), S("entities"), P(":"), SP, P("[")>> \o EntityToks(EntA)
                  \o <<P(","), P("]"), P("}")>>)
      \* cut short
      [] id = "cut_short" ->
           Line("partial", <<>>,
                <<P("{"), S("entities"), P(":"), SP, P("[")>> \o EntityToks(EntA))
      \* a second field after the list: the pattern does not match, the line parses
      [] id = "extra_field_a_a" ->
           Line("extrafield", <<EntA, EntA>>,
                <<P("{"), S("entities"), P(":"), SP, P("[")>>
                  \o EntitiesToks(<<EntA, EntA>>)
                  \o <<P("]"), P(","), SP, S("relations"), P(":"), SP,
                       P("["), P("]"), P("}")>>)
      \* an element that is not an object
      [] id = "number_element" ->
           Line("nondict", <<>>,
                <<P("{"), S("entities"), P(":"), SP, P("[")>>
                  \o EntitiesToks(<<EntA, EntA>>)
                  \o <<P(","), SP, N("1"), P("]"), P("}")>>)
      \* the entities field is not a list
      [] id = "string_field" ->
           Line("nonlist", <<>>, <<P("{"), S("entities"), P(":"), SP, S("a"), P("}")>>)
      \* a closing bracket inside a name
      [] id = "bracket_name" ->
           Line("bracket", <<EntBracket, EntBracket>>,
                BlockToks(<<EntBracket, EntBracket>>))
      \* a document without an entities field
      [] id = "other_field" ->
           Line("nofield", <<>>,
                <<P("{"), S("relations"), P(":"), SP, P("["), P("]"), P("}")>>)
      \* a reasoning section of its own, holding a block
      [] id = "think_section" ->
           Line("think", <<>>,
                <<THINK_OPEN, TXT("pondering"), SP>> \o BlockToks(<<EntR>>)
                  \o <<THINK_CLOSE>>)
      \* a closing marker on its own
      [] id = "stray_close" -> Line("marker", <<>>, <<THINK_CLOSE>>)

LineIds ==
    { "sentinel", "block_a_b", "block_b_a", "block_a_a", "block_bars", "block_notype",
      "block_empty", "prose_block_b", "pretty_a_t", "trailing_comma", "cut_short",
      "extra_field_a_a", "number_element", "string_field", "bracket_name",
      "other_field", "think_section", "stray_close" }

\* The reasoning section: some prose and a block holding EntT.
ThinkBody == <<TXT("thinking"), SP>> \o BlockToks(<<EntT>>)

\* How the reasoning markers appear in front of the lines.
ThinkVariants == {"none", "closed", "open", "closeonly"}

RECURSIVE JoinLines(_)
\* The lines joined by line breaks.
JoinLines(lines) ==
    IF lines = <<>> THEN <<>>
    ELSE IF Len(lines) = 1 THEN LineOf(lines[1]).toks
    ELSE LineOf(lines[1]).toks \o <<NL>> \o JoinLines(Tail(lines))

\* The response text of a layout [think, lines], lines a sequence of line ids.
LayoutText(l) ==
    LET body == JoinLines(l.lines) IN
    CASE l.think = "none" -> body
      [] l.think = "closed" -> <<THINK_OPEN>> \o ThinkBody \o <<THINK_CLOSE, NL>> \o body
      [] l.think = "open" -> <<THINK_OPEN>> \o ThinkBody \o <<NL>> \o body
      [] l.think = "closeonly" -> ThinkBody \o <<THINK_CLOSE, NL>> \o body

\* Largest number of lines of a response text.
MaxLines == 2

SeqsUpTo(set, n) == UNION { [1..m -> set] : m \in 0..n }

Layouts == { [think |-> t, lines |-> ls] : t \in ThinkVariants, ls \in SeqsUpTo(LineIds, MaxLines) }

(***************************************************************************)
(* The parser as a state machine: a response arrives, the parser is called.*)
(***************************************************************************)
NotParsed == [done |-> FALSE, raised |-> FALSE, val |-> JArr(<<>>)]

IdleCompare ==
    /\ base_entities = <<>>
    /\ lora_entities = <<>>
    /\ comparison = [done |-> FALSE]
    /\ first_call = [done |-> FALSE]

\* ModelResult (lines 15-23) without inference_time, which no claim reads;
\* set = FALSE marks a local or a future that holds no result yet.
NoResult ==
    [ set |-> FALSE, model_name |-> "", entities |-> JArr(<<>>), success |-> FALSE,
      error_message |-> "", raw_response |-> PyStr(<<>>) ]

IdleDispatch ==
    /\ endpoint = <<>>
    /\ task = <<>>
    /\ main_pc = "idle"
    /\ base_result = NoResult
    /\ lora_result = NoResult
    /\ returned = <<>>
    /\ finished = <<>>

\* An Optional[List]: None, or a list.
GtNone == [none |-> TRUE, list |-> <<>>]
GtList(l) == [none |-> FALSE, list |-> l]

NotScored == [done |-> FALSE]

IdleMetrics ==
    /\ ground_truth = GtNone
    /\ predictions = <<>>
    /\ metrics = NotScored

InitParse ==
    /\ layout \in Layouts
    /\ response_text = PyStr(LayoutText(layout))
    /\ parsed = NotParsed
    /\ IdleCompare
    /\ IdleDispatch
    /\ IdleMetrics

\* The call _extract_entities_from_response(response_text).
Parse ==
    /\ ~parsed.done
    /\ \E out \in {ExtractEntitiesFromResponse(response_text)} :
          parsed' = [done |-> TRUE, raised |-> out.raised, val |-> out.val]
    /\ UNCHANGED <<response_text, layout>>
    /\ UNCHANGED compareVars
    /\ UNCHANGED dispatchVars
    /\ UNCHANGED metricsVars

NextParse == Parse

SpecParse == InitParse /\ [][NextParse]_vars

(***************************************************************************)
(* compare_entities, lines 205-236                                         *)
(***************************************************************************)
KeysOf(entities) == { EntityKey(entities[i]) : i \in 1..Len(entities) }

\* A variant of lines 222-227 that does not take the common keys out of base_only.
CompareSetsNoDifference(base, lora) ==
    [ base_set |-> KeysOf(base),
      lora_set |-> KeysOf(lora),
      common |-> KeysOf(base) \cap KeysOf(lora),
      base_only |-> KeysOf(base),
      lora_only |-> KeysOf(lora) \ KeysOf(base) ]

\* A variant of lines 222-227 that pairs the two lists position by position.
CompareSetsPositional(base, lora) ==
    LET same == { i \in 1..Len(base) :
                    i <= Len(lora) /\ EntityKey(base[i]) = EntityKey(lora[i]) }
        common == { EntityKey(base[i]) : i \in same }
    IN  [ base_set |-> KeysOf(base),
          lora_set |-> KeysOf(lora),
          common |-> common,
          base_only |-> KeysOf(base) \ common,
          lora_only |-> KeysOf(lora) \ common ]

\* Lines 222-227: the key sets and their partition.
CompareSets(base, lora) ==
    LET Partition(base_set, lora_set) ==
            [ base_set |-> base_set,
              lora_set |-> lora_set,
              common |-> base_set \cap lora_set,
              base_only |-> base_set \ lora_set,
              lora_only |-> lora_set \ base_set ]
    IN  Partition(KeysOf(base), KeysOf(lora))

\* A variant of lines 229-236 that counts keys where the code counts list elements.
ComparisonOfKeyCounts(base, lora, sets) ==
    [ base_total |-> Cardinality(sets.base_set),
      lora_total |-> Cardinality(sets.lora_set),
      common |-> Cardinality(sets.common),
      base_only |-> Cardinality(sets.base_only),
      lora_only |-> Cardinality(sets.lora_only),
      improvement |-> Cardinality(sets.lora_set) - Cardinality(sets.base_set) ]

\* Lines 229-236: the dictionary returned.
ComparisonOf(base, lora, sets) ==
    [ base_total |-> Len(base),
      lora_total |-> Len(lora),
      common |-> Cardinality(sets.common),
      base_only |-> Cardinality(sets.base_only),
      lora_only |-> Cardinality(sets.lora_only),
      improvement |-> Len(lora) - Len(base) ]

\* compare_entities(base_entities, lora_entities): the value returned, the
\* local sets it was counted from, and the two argument lists as the call
\* leaves them (the code only reads them).
CompareEntities(base, lora) ==
    LET Counted(sets) ==
            [ result |-> ComparisonOf(base, lora, sets),
              sets |-> sets,
              base_after |-> base,
              lora_after |-> lora ]
    IN  Counted(CompareSets(base, lora))

(***************************************************************************)
(* The comparator as a state machine: the caller holds two entity lists and *)
(* calls compare_entities on them, then again on reorderings of them.      *)
(***************************************************************************)
ComparePool == {EntA, EntNoType, EntBar1, EntBar2}

\* Largest length of an entity list handed to compare_entities.
MaxListLen == 2

NoCall == [done |-> FALSE]

IdleParse ==
    /\ layout = [think |-> "none", lines |-> <<>>]
    /\ response_text = PyStr(<<>>)
    /\ parsed = NotParsed

InitCompare ==
    /\ base_entities \in SeqsUpTo(ComparePool, MaxListLen)
    /\ lora_entities \in SeqsUpTo(ComparePool, MaxListLen)
    /\ comparison = NoCall
    /\ first_call = NoCall
    /\ IdleParse
    /\ IdleDispatch
    /\ IdleMetrics

\* The record kept of a call: its arguments and what CompareEntities gave.
CallRecord(base, lora, r) ==
    [ done |-> TRUE,
      base |-> base,
      lora |-> lora,
      base_after |-> r.base_after,
      lora_after |-> r.lora_after,
      sets |-> r.sets,
      result |-> r.result ]

\* The orders of n things.
Orders(n) == { f \in [1..n -> 1..n] : \A i, j \in 1..n : f[i] = f[j] => i = j }

\* seq in the order f
Reordered(seq, f) == [ k \in 1..Len(seq) |-> seq[f[k]] ]

\* The first call of compare_entities, on the lists as the caller holds them.
CompareFirst ==
    /\ ~first_call.done
    /\ \E r \in {CompareEntities(base_entities, lora_entities)} :
          /\ comparison' = CallRecord(base_entities, lora_entities, r)
          /\ first_call' = CallRecord(base_entities, lora_entities, r)
          /\ base_entities' = r.base_after
          /\ lora_entities' = r.lora_after
    /\ UNCHANGED parserVars
    /\ UNCHANGED metricsVars
    /\ UNCHANGED dispatchVars

\* A second call of compare_entities, on copies of the lists in any order.
CompareAgain ==
    /\ first_call.done
    /\ comparison = first_call
    /\ \E f \in Orders(Len(base_entities)), g \in Orders(Len(lora_entities)) :
          \E r \in {CompareEntities(Reordered(base_entities, f),
                                    Reordered(lora_entities, g))} :
              comparison' = CallRecord(Reordered(base_entities, f),
                                       Reordered(lora_entities, g), r)
    /\ UNCHANGED <<base_entities, lora_entities, first_call>>
    /\ UNCHANGED parserVars
    /\ UNCHANGED metricsVars
    /\ UNCHANGED dispatchVars

NextCompare == CompareFirst \/ CompareAgain

SpecCompare == InitCompare /\ [][NextCompare]_vars

(***************************************************************************)
(* calculate_metrics, lines 238-276                                        *)
(*                                                                         *)
(* A float is kept as the exact fraction [n, d] in lowest terms, d > 0:    *)
(* the quotients of lines 265-267 are computed on fractions, in the order  *)
(* the code computes them.                                                 *)
(***************************************************************************)
RECURSIVE Gcd(_, _)
Gcd(a, b) == IF b = 0 THEN a ELSE Gcd(b, a % b)

\* The fraction n/d in lowest terms (n >= 0, d > 0).
Frac(n, d) == LET Reduced(g) == [n |-> n \div g, d |-> d \div g] IN Reduced(Gcd(n, d))

FloatZero == Frac(0, 1)
FromInt(i) == Frac(i, 1)
FMul(x, y) == Frac(x.n * y.n, x.d * y.d)
FAdd(x, y) == Frac(x.n * y.d + y.n * x.d, x.d * y.d)
\* x / y for y > 0
FDiv(x, y) == Frac(x.n * y.d, x.d * y.n)
FPositive(x) == x.n > 0

\* A variant of lines 261-263 that counts the missed keys as false positives
\* and the spurious ones as false negatives.
MetricCountsSwapped(gt_set, pred_set) ==
    [ true_positives |-> Cardinality(gt_set \cap pred_set),
      false_positives |-> Cardinality(gt_set \ pred_set),
      false_negatives |-> Cardinality(pred_set \ gt_set) ]

\* Lines 261-263.
MetricCounts(gt_set, pred_set) ==
    [ true_positives |-> Cardinality(gt_set \cap pred_set),
      false_positives |-> Cardinality(pred_set \ gt_set),
      false_negatives |-> Cardinality(gt_set \ pred_set) ]

\* Line 265: true_positives / (true_positives + false_positives), or 0.0.
Precision(c) ==
    IF c.true_positives + c.false_positives > 0
    THEN FDiv(FromInt(c.true_positives), FromInt(c.true_positives + c.false_positives))
    ELSE FloatZero

\* Line 266: true_positives / (true_positives + false_negatives), or 0.0.
Recall(c) ==
    IF c.true_positives + c.false_negatives > 0
    THEN FDiv(FromInt(c.true_positives), FromInt(c.true_positives + c.false_negatives))
    ELSE FloatZero

\* Line 267: 2 * precision * recall / (precision + recall), or 0.0.
F1(precision, recall) ==
    IF FPositive(FAdd(precision, recall))
    THEN FDiv(FMul(FMul(FromInt(2), precision), recall), FAdd(precision, recall))
    ELSE FloatZero

\* Line 250: not ground_truth, true of None and of the empty list.
NotGroundTruth(gt) == gt.none \/ gt.list = <<>>

\* calculate_metrics(ground_truth, predictions): the dictionary returned
\* (line 251 or lines 269-276) and whether the sets of lines 258-263 were built.
CalculateMetrics(gt, preds) ==
    LET Scored(c, precision, recall) ==
            [ computed |-> TRUE,
              result |-> [ precision |-> precision,
                           recall |-> recall,
                           f1 |-> F1(precision, recall),
                           true_positives |-> c.true_positives,
                           false_positives |-> c.false_positives,
                           false_negatives |-> c.false_negatives ] ]
        Counted(c) == Scored(c, Precision(c), Recall(c))
    IN  IF NotGroundTruth(gt)
        THEN [ computed |-> FALSE,
               result |-> [precision |-> FloatZero, recall |-> FloatZero, f1 |-> FloatZero] ]
        ELSE Counted(MetricCounts(KeysOf(gt.list), KeysOf(preds)))

(***************************************************************************)
(* The scorer as a state machine: the caller holds a ground truth (or      *)
(* none) and a list of predictions, and calls calculate_metrics.           *)
(***************************************************************************)
MetricsPool == {EntA, EntB, EntBar1, EntBar2}

InitMetrics ==
    /\ ground_truth \in {GtNone} \cup { GtList(l) : l \in SeqsUpTo(MetricsPool, MaxListLen) }
    /\ predictions \in SeqsUpTo(MetricsPool, MaxListLen)
    /\ metrics = NotScored
    /\ IdleParse
    /\ IdleCompare
    /\ IdleDispatch

\* The call calculate_metrics(ground_truth, predictions).
Score ==
    /\ ~metrics.done
    /\ \E r \in {CalculateMetrics(ground_truth, predictions)} :
          metrics' = [done |-> TRUE, computed |-> r.computed, result |-> r.result]
    /\ UNCHANGED <<ground_truth, predictions>>
    /\ UNCHANGED parserVars
    /\ UNCHANGED compareVars
    /\ UNCHANGED dispatchVars

NextMetrics == Score

SpecMetrics == InitMetrics /\ [][NextMetrics]_vars

(***************************************************************************)
(* extract_entities_single, lines 56-113                                   *)
(***************************************************************************)
Endpoints == {"base", "lora"}

\* Lines 189 and 196: the model name each task is given.
ModelName(e) == IF e = "base" THEN "qwen3-base" ELSE "qwen3-ner-zero3"

\* What an endpoint does with a request.  "ok" answers with a well-shaped body
\* whose message.content is the text of the layout; "null_content" answers
\* with a well-shaped body whose message.content is null; the others fail.
TransportFailures == {"connection_error", "timeout", "http_error"}
ShapeFailures == {"bad_body", "no_choices"}

NoLayout == [think |-> "none", lines |-> <<>>]

ContentLayouts ==
    { [think |-> "none", lines |-> <<"sentinel">>],
      [think |-> "none", lines |-> <<"block_a_b">>],
      [think |-> "none", lines |-> <<"block_b_a", "block_a_b">>],
      [think |-> "closed", lines |-> <<"block_notype">>],
      [think |-> "none", lines |-> <<"trailing_comma">>],
      [think |-> "none", lines |-> <<"cut_short">>],
      [think |-> "none", lines |-> <<"sentinel", "other_field">>] }

Replies ==
    { [kind |-> "ok", layout |-> l] : l \in ContentLayouts }
      \cup { [kind |-> k, layout |-> NoLayout] :
               k \in TransportFailures \cup ShapeFailures \cup {"null_content"} }

\* str(e) of the exception each failure raises (line 112).
ErrorMessage(kind) ==
    CASE kind = "connection_error" -> "Max retries exceeded with url: /v1/chat/completions"
      [] kind = "timeout" -> "Read timed out. (read timeout=120)"
      [] kind = "http_error" -> "500 Server Error: Internal Server Error for url"
      [] kind = "bad_body" -> "Expecting value: line 1 column 1 (char 0)"
      [] kind = "no_choices" -> "'choices'"
      [] OTHER -> "exception in _extract_entities_from_response"

\* Line 91: the message.content of a well-shaped body.
ReplyContent(reply) ==
    IF reply.kind = "null_content" THEN PyNone ELSE PyStr(LayoutText(reply.layout))

\* Lines 86-95, the body of the try: [exc, msg, response_text, entities].
\* requests.post raises on a connection error or a timeout, raise_for_status
\* on a non-success status, response.json() on a body that is no JSON, the
\* subscripts of line 91 on a missing field.
SingleTry(reply) ==
    LET Parsed(text, out) ==
            IF out.raised
            THEN [ exc |-> "parser", msg |-> ErrorMessage("parser"),
                   response_text |-> text, entities |-> JArr(<<>>) ]
            ELSE [ exc |-> "none", msg |-> "", response_text |-> text,
                   entities |-> out.val ]
        Content(text) == Parsed(text, ExtractEntitiesFromResponse(text))
    IN  IF reply.kind \in TransportFailures \cup ShapeFailures
        THEN [ exc |-> reply.kind, msg |-> ErrorMessage(reply.kind),
               response_text |-> PyStr(<<>>), entities |-> JArr(<<>>) ]
        ELSE Content(ReplyContent(reply))

\* A variant of lines 105-113 that leaves error_message at its default.
ExtractEntitiesSingleNoMessage(reply, model_name) ==
    LET Result(t) ==
            [ raised |-> FALSE,
              result |-> [ set |-> TRUE, model_name |-> model_name,
                           entities |-> t.entities,
                           success |-> (t.exc = "none"), error_message |-> "",
                           raw_response |-> t.response_text ] ]
    IN  Result(SingleTry(reply))

\* A variant of lines 95-103 that reports a response without entities as a
\* failed call.
ExtractEntitiesSingleEmptyFails(reply, model_name) ==
    LET Result(t) ==
            IF t.exc = "none" /\ t.entities # JArr(<<>>)
            THEN [ raised |-> FALSE,
                   result |-> [ set |-> TRUE, model_name |-> model_name,
                                entities |-> t.entities, success |-> TRUE,
                                error_message |-> "",
                                raw_response |-> t.response_text ] ]
            ELSE [ raised |-> FALSE,
                   result |-> [ set |-> TRUE, model_name |-> model_name,
                                entities |-> JArr(<<>>), success |-> FALSE,
                                error_message |-> IF t.msg = "" THEN "no entities" ELSE t.msg,
                                raw_response |-> PyStr(<<>>) ] ]
    IN  Result(SingleTry(reply))

\* extract_entities_single(text, api_url, model_name): [raised, result].
\* Lines 97-103 build the successful ModelResult, lines 105-113 the failed one
\* for any Exception; raised = TRUE would be an exception leaving the call.
ExtractEntitiesSingle(reply, model_name) ==
    LET Result(t) ==
            IF t.exc = "none"
            THEN [ raised |-> FALSE,
                   result |-> [ set |-> TRUE, model_name |-> model_name,
                                entities |-> t.entities, success |-> TRUE,
                                error_message |-> "",
                                raw_response |-> t.response_text ] ]
            ELSE [ raised |-> FALSE,
                   result |-> [ set |-> TRUE, model_name |-> model_name,
                                entities |-> JArr(<<>>), success |-> FALSE,
                                error_message |-> t.msg,
                                raw_response |-> PyStr(<<>>) ] ]
    IN  Result(SingleTry(reply))

(***************************************************************************)
(* extract_entities_both, lines 173-203                                    *)
(***************************************************************************)
\* Line 183: ThreadPoolExecutor(max_workers=2).
MaxWorkers == 2

NoTask == [pc |-> "unsubmitted", raised |-> FALSE, result |-> NoResult]

\* A variant of line 203 that pairs the results in the order the tasks completed.
ReturnInCompletionOrder(b, l, order) ==
    IF order = <<"lora", "base">> THEN <<l, b>> ELSE <<b, l>>

\* Line 203: return base_result, lora_result.
ReturnValue(b, l, order) == <<b, l>>

InitBoth ==
    /\ endpoint \in [Endpoints -> { [reply |-> r, requests |-> 0] : r \in Replies }]
    /\ task = [e \in Endpoints |-> NoTask]
    /\ main_pc = "start"
    /\ base_result = NoResult
    /\ lora_result = NoResult
    /\ returned = <<>>
    /\ finished = <<>>
    /\ IdleParse
    /\ IdleCompare
    /\ IdleMetrics

\* Lines 185-190: executor.submit for the base endpoint.
SubmitBase ==
    /\ main_pc = "start"
    /\ task' = [task EXCEPT !["base"].pc = "queued"]
    /\ main_pc' = "base_submitted"
    /\ UNCHANGED <<endpoint, base_result, lora_result, returned, finished>>
    /\ UNCHANGED parserVars
    /\ UNCHANGED metricsVars
    /\ UNCHANGED compareVars

\* Lines 192-197: executor.submit for the LoRA endpoint.
SubmitLora ==
    /\ main_pc = "base_submitted"
    /\ task' = [task EXCEPT !["lora"].pc = "queued"]
    /\ main_pc' = "lora_submitted"
    /\ UNCHANGED <<endpoint, base_result, lora_result, returned, finished>>
    /\ UNCHANGED parserVars
    /\ UNCHANGED metricsVars
    /\ UNCHANGED compareVars

\* A variant of the pool that runs its tasks one after the other.
FreeWorkerSerial == \A e \in Endpoints : task[e].pc # "in_flight"

\* A worker of the pool is free to take a queued task.
FreeWorker == Cardinality({ e \in Endpoints : task[e].pc = "in_flight" }) < MaxWorkers

\* A worker takes task e and posts its request (lines 69-87).
PostRequest(e) ==
    /\ task[e].pc = "queued"
    /\ FreeWorker
    /\ task' = [task EXCEPT ![e].pc = "in_flight"]
    /\ endpoint' = [endpoint EXCEPT ![e].requests = @ + 1]
    /\ UNCHANGED <<main_pc, base_result, lora_result, returned, finished>>
    /\ UNCHANGED parserVars
    /\ UNCHANGED metricsVars
    /\ UNCHANGED compareVars

\* What extract_entities_single returns to each endpoint's task for each
\* reply: the function ExtractEntitiesSingle over the replies of the model.
SingleResults ==
    [ x \in Replies \X Endpoints |-> ExtractEntitiesSingle(x[1], ModelName(x[2])) ] @@ <<>>

\* A variant of line 87 without timeout=120: the request to an endpoint that
\* hangs never ends.
CompleteUnlessHung(e) ==
    /\ task[e].pc = "in_flight"
    /\ endpoint[e].reply.kind # "timeout"
    /\ \E r \in {SingleResults[<<endpoint[e].reply, e>>]} :
          task' = [task EXCEPT ![e] = [pc |-> "done", raised |-> r.raised,
                                       result |-> r.result]]
    /\ finished' = Append(finished, e)
    /\ UNCHANGED <<endpoint, main_pc, base_result, lora_result, returned>>
    /\ UNCHANGED parserVars
    /\ UNCHANGED metricsVars
    /\ UNCHANGED compareVars

\* The endpoint answers or fails, and task e ends (lines 87-113): its future
\* holds the ModelResult, or the exception that left extract_entities_single.
Complete(e) ==
    /\ task[e].pc = "in_flight"
    /\ \E r \in {SingleResults[<<endpoint[e].reply, e>>]} :
          task' = [task EXCEPT ![e] = [pc |-> "done", raised |-> r.raised,
                                       result |-> r.result]]
    /\ finished' = Append(finished, e)
    /\ UNCHANGED <<endpoint, main_pc, base_result, lora_result, returned>>
    /\ UNCHANGED parserVars
    /\ UNCHANGED metricsVars
    /\ UNCHANGED compareVars

\* Line 200: base_future.result() blocks until the task is done, and raises
\* what the task raised.
CollectBase ==
    /\ main_pc = "lora_submitted"
    /\ task["base"].pc = "done"
    /\ main_pc' = IF task["base"].raised THEN "raised" ELSE "base_collected"
    /\ base_result' = IF task["base"].raised THEN base_result ELSE task["base"].result
    /\ UNCHANGED <<endpoint, task, lora_result, returned, finished>>
    /\ UNCHANGED parserVars
    /\ UNCHANGED metricsVars
    /\ UNCHANGED compareVars

\* Line 201: lora_future.result().
CollectLora ==
    /\ main_pc = "base_collected"
    /\ task["lora"].pc = "done"
    /\ main_pc' = IF task["lora"].raised THEN "raised" ELSE "lora_collected"
    /\ lora_result' = IF task["lora"].raised THEN lora_result ELSE task["lora"].result
    /\ UNCHANGED <<endpoint, task, base_result, returned, finished>>
    /\ UNCHANGED parserVars
    /\ UNCHANGED metricsVars
    /\ UNCHANGED compareVars

\* Lines 183 and 203: the with block ends (the pool has no task left to wait
\* for) and the pair is returned.
Return ==
    /\ main_pc = "lora_collected"
    /\ main_pc' = "returned"
    /\ returned' = ReturnValue(base_result, lora_result, finished)
    /\ UNCHANGED <<endpoint, task, base_result, lora_result, finished>>
    /\ UNCHANGED parserVars
    /\ UNCHANGED metricsVars
    /\ UNCHANGED compareVars

NextBoth ==
    \/ SubmitBase
    \/ SubmitLora
    \/ \E e \in Endpoints : PostRequest(e)
    \/ \E e \in Endpoints : Complete(e)
    \/ CollectBase
    \/ CollectLora
    \/ Return

SpecBoth == InitBoth /\ [][NextBoth]_vars

\* The caller's thread and the two workers of the pool keep running: as long
\* as some step of the invocation can be taken, a step is taken.  That a
\* request in flight can always take its step Complete rests on timeout=120
\* at line 87: the request ends, with a reply or with an exception.
Fairness == WF_vars(NextBoth)

SpecBothFair == SpecBoth /\ Fairness

(***************************************************************************)
(* Properties of the parser                                                *)
(***************************************************************************)
\* The text holds no JSON at all: only prose, blanks and line breaks.
NoJson(toks) == \A i \in 1..Len(toks) : toks[i].k \in {"txt", "sp", "nl"} /\ toks[i] \notin {THINK_OPEN, THINK_CLOSE}

\* C1: for every input string the parser returns a value and never raises to
\* its caller; for a text that holds no JSON it returns the empty sequence.
C1_ParserNeverRaises ==
    parsed.done =>
        /\ ~parsed.raised
        /\ (response_text.py = "str" /\ NoJson(response_text.toks)) => parsed.val = JArr(<<>>)

\* C1 witness: the parser has run on a text whose deduplication step raised
\* (an element of the list has no .get), and returned all the same.
C1_Witness_SwallowedException ==
    /\ parsed.done
    /\ layout = [think |-> "none", lines |-> <<"sentinel", "number_element">>]
    /\ TryBody(response_text).exc = "AttributeError"
    /\ ~parsed.raised

\* C2: the value returned is always a sequence whose elements are all
\* entity records (mappings), on every path.
C2_ParserReturnsEntityRecords ==
    parsed.done =>
        /\ IsList(parsed.val)
        /\ \A i \in 1..Len(parsed.val.v) : IsDict(parsed.val.v[i])

\* The key of the claims: name, a bar, type; a missing field is the empty string.
ClaimField(e, f) == IF f \in DOMAIN e.v THEN e.v[f].v ELSE ""
ClaimKey(e) == ClaimField(e, "name") \o "|" \o ClaimField(e, "type")

\* The indices of es that hold the first occurrence of their key.
FirstIndices(es) ==
    { i \in 1..Len(es) : \A j \in 1..(i - 1) : ClaimKey(es[j]) # ClaimKey(es[i]) }

RECURSIVE PickIndices(_, _, _)
PickIndices(es, keep, i) ==
    IF i > Len(es) THEN <<>>
    ELSE (IF i \in keep THEN <<es[i]>> ELSE <<>>) \o PickIndices(es, keep, i + 1)

\* es with only the first occurrence of each key, order kept.
KeepFirstByKey(es) == PickIndices(es, FirstIndices(es), 1)

RECURSIVE ConcatEnts(_)
ConcatEnts(lines) ==
    IF lines = <<>> THEN <<>> ELSE LineOf(Head(lines)).ents \o ConcatEnts(Tail(lines))

\* The layout holds nothing but prose and valid blocks, none of them inside a
\* closed reasoning section.
OnlyValidBlocks(l) ==
    /\ l.think # "closed"
    /\ \A i \in 1..Len(l.lines) : LineOf(l.lines[i]).kind \in {"valid", "prose"}

\* The entities of the blocks of such a layout, in text order.
BlockEntities(l) ==
    (IF l.think = "none" THEN <<>> ELSE <<EntT>>) \o ConcatEnts(l.lines)

C4_ParserResultDeduplicated ==
    (parsed.done /\ IsList(parsed.val)) =>
        \A i, j \in 1..Len(parsed.val.v) :
            (i < j /\ IsDict(parsed.val.v[i]) /\ IsDict(parsed.val.v[j]))
                => ClaimKey(parsed.val.v[i]) # ClaimKey(parsed.val.v[j])

(***************************************************************************)
(* Properties of the comparator                                            *)
(***************************************************************************)
ClaimKeySet(es) == { ClaimKey(es[i]) : i \in 1..Len(es) }

\* C5: for any two entity lists, common + base_only = |keyset(L1)| and
\* common + lora_only = |keyset(L2)|, and the common, base-only and lora-only
\* key sets are pairwise disjoint and together make the union of the two key sets.
C5_ComparePartition ==
    comparison.done =>
        LET r == comparison.result
            k1 == ClaimKeySet(comparison.base)
            k2 == ClaimKeySet(comparison.lora)
            c == comparison.sets.common
            b == comparison.sets.base_only
            l == comparison.sets.lora_only
        IN  /\ r.common + r.base_only = Cardinality(k1)
            /\ r.common + r.lora_only = Cardinality(k2)
            /\ r.common = Cardinality(c)
            /\ r.base_only = Cardinality(b)
            /\ r.lora_only = Cardinality(l)
            /\ c \cap b = {} /\ c \cap l = {} /\ b \cap l = {}
            /\ c \cup b \cup l = k1 \cup k2

\* C5 witness: a call on lists with a duplicate and a shared key, where each
\* of the three parts is non-empty.
C5_Witness_AllParts ==
    /\ comparison.done
    /\ comparison.base = <<EntA, EntBar1>>
    /\ comparison.lora = <<EntA, EntNoType>>
    /\ comparison.result.common = 1
    /\ comparison.result.base_only = 1
    /\ comparison.result.lora_only = 1

\* C6: improvement = len(L2) - len(L1) on the raw lists, duplicates counted,
\* and base_total / lora_total are the raw lengths as well.
C6_ImprovementRawLength ==
    comparison.done =>
        /\ comparison.result.improvement = Len(comparison.lora) - Len(comparison.base)
        /\ comparison.result.base_total = Len(comparison.base)
        /\ comparison.result.lora_total = Len(comparison.lora)

\* C6 witness: a duplicate entry inflates the figure: one key on each side,
\* improvement 1.
C6_Witness_DuplicateCounted ==
    /\ comparison.done
    /\ comparison.base = <<EntA>>
    /\ comparison.lora = <<EntA, EntA>>
    /\ comparison.result.improvement = 1
    /\ Cardinality(ClaimKeySet(comparison.lora)) = 1

\* C7: compare_entities is order-independent and without side effects: every
\* call, on whatever reordering of the two lists, returns the outcome of the
\* first call (all six fields), and leaves both argument lists as they were
\* passed.
C7_CompareOrderIndependent ==
    comparison.done =>
        /\ comparison.result = first_call.result
        /\ DOMAIN comparison.result =
              {"base_total", "lora_total", "common", "base_only", "lora_only", "improvement"}
        /\ comparison.base_after = comparison.base
        /\ comparison.lora_after = comparison.lora
        /\ base_entities = first_call.base
        /\ lora_entities = first_call.lora

\* C7 witness: a later call on both lists reordered.
C7_Witness_Reordered ==
    /\ comparison.done
    /\ first_call.base = <<EntA, EntNoType>>
    /\ first_call.lora = <<EntNoType, EntBar1>>
    /\ comparison.base = <<EntNoType, EntA>>
    /\ comparison.lora = <<EntBar1, EntNoType>>
    /\ comparison.result = first_call.result

(***************************************************************************)
(* Properties of the dispatcher                                            *)
(***************************************************************************)
Other(e) == IF e = "base" THEN "lora" ELSE "base"

\* The endpoint answers with a well-shaped body.
Answers(e) == endpoint[e].reply.kind \in {"ok", "null_content"}

\* C8: extract_entities_both returns only after both tasks have completed,
\* and the pair it returns is (base endpoint's result, LoRA endpoint's
\* result) whichever task completed first.
C8_ReturnsBothInFixedOrder ==
    /\ main_pc # "returned" => returned = <<>>
    /\ main_pc = "returned" =>
          /\ \A e \in Endpoints : task[e].pc = "done"
          /\ Len(returned) = 2
          /\ returned[1] = task["base"].result
          /\ returned[2] = task["lora"].result
          /\ returned[1].model_name = "qwen3-base"
          /\ returned[2].model_name = "qwen3-ner-zero3"
          /\ returned[1].success = Answers("base")
          /\ returned[2].success = Answers("lora")

\* C8 witness: the LoRA task completed first and failed, the base task
\* succeeded, and the pair came back base first.
C8_Witness_LoraFirst ==
    /\ main_pc = "returned"
    /\ finished = <<"lora", "base">>
    /\ returned[1].success
    /\ ~returned[2].success

\* The tasks of one invocation: one per endpoint, one request each at most,
\* posted by the endpoint's own task, and a queued task never has to wait for
\* the other one to complete.
TwoIndependentTasks ==
    /\ DOMAIN task = Endpoints
    /\ main_pc \notin {"start", "base_submitted"} =>
          \A e \in Endpoints : task[e].pc # "unsubmitted"
    /\ \A e \in Endpoints :
          /\ endpoint[e].requests = IF task[e].pc \in {"in_flight", "done"} THEN 1 ELSE 0
          /\ task[e].pc = "queued" => ENABLED PostRequest(e)
          /\ task[e].pc = "done" => task[e].result.model_name = ModelName(e)

\* A step of task e leaves the other task, the other endpoint and the locals
\* of the caller as they are.
TaskStepsAreLocal ==
    \A e \in Endpoints :
        (task'[e] # task[e]) =>
            \/ main_pc' # main_pc
            \/ /\ task'[Other(e)] = task[Other(e)]
               /\ endpoint'[Other(e)] = endpoint[Other(e)]
               /\ base_result' = base_result
               /\ lora_result' = lora_result
               /\ returned' = returned

\* C9: one invocation starts exactly two tasks, one per endpoint; they run
\* concurrently, not one after the other (a queued task can always start,
\* whatever the state of the other); and they share no mutable state, each
\* writing only its own result record.
C9_TwoConcurrentTasks == []TwoIndependentTasks /\ [][TaskStepsAreLocal]_vars

\* C9 witness: the second endpoint's request is in flight while the first
\* endpoint's call has not completed.
C9_Witness_BothInFlight ==
    /\ task["base"].pc = "in_flight"
    /\ task["lora"].pc = "in_flight"
    /\ endpoint["base"].requests = 1
    /\ endpoint["lora"].requests = 1

\* The result record of a failed call.
IsFailedResult(r) ==
    /\ r.set
    /\ ~r.success
    /\ r.entities = JArr(<<>>)
    /\ r.raw_response = PyStr(<<>>)
    /\ r.error_message # ""

\* The result record of a call answered with valid blocks only.
IsParsedResult(r, l) ==
    /\ r.set
    /\ r.success
    /\ r.entities = JArr(KeepFirstByKey(BlockEntities(l)))
    /\ r.raw_response = PyStr(LayoutText(l))
    /\ r.error_message = ""

\* C10: a transport failure (connection error, timeout, non-success status)
\* makes extract_entities_single return a record with success = false, no
\* entities, an empty raw response and a non-empty error message, instead of
\* raising; extract_entities_both then does not raise, and the result of the
\* other endpoint is what that endpoint alone determines.
C10_TransportFailureIsData ==
    /\ main_pc # "raised"
    /\ \A e \in Endpoints :
          (task[e].pc = "done" /\ endpoint[e].reply.kind \in TransportFailures) =>
              /\ ~task[e].raised
              /\ IsFailedResult(task[e].result)
              /\ task[e].result.model_name = ModelName(e)
              /\ (task[Other(e)].pc = "done" /\ endpoint[Other(e)].reply.kind = "ok"
                    /\ OnlyValidBlocks(endpoint[Other(e)].reply.layout)) =>
                     IsParsedResult(task[Other(e)].result, endpoint[Other(e)].reply.layout)
    /\ main_pc = "returned" =>
          /\ endpoint["base"].reply.kind \in TransportFailures => IsFailedResult(returned[1])
          /\ endpoint["lora"].reply.kind \in TransportFailures => IsFailedResult(returned[2])

\* C10 witness: endpoint A answered with one block of two entities, endpoint B
\* timed out, and the pair was returned.
C10_Witness_BTimesOut ==
    /\ main_pc = "returned"
    /\ endpoint["base"].reply = [kind |-> "ok", layout |-> [think |-> "none", lines |-> <<"block_a_b">>]]
    /\ endpoint["lora"].reply.kind = "timeout"
    /\ returned[1].success
    /\ returned[1].entities = JArr(<<EntA, EntB>>)
    /\ IsFailedResult(returned[2])

(***************************************************************************)
(* Properties of the scorer                                                *)
(***************************************************************************)
MetricFields ==
    {"precision", "recall", "f1", "true_positives", "false_positives", "false_negatives"}

\* C14: with the ground truth absent (None) or empty, calculate_metrics
\* returns every metric field (precision, recall, f1, tp, fp, fn) as zero,
\* whatever the predictions, without the set computation.
C14_NoGroundTruthAllZero ==
    (metrics.done /\ (ground_truth.none \/ ground_truth.list = <<>>)) =>
        /\ ~metrics.computed
        /\ MetricFields \subseteq DOMAIN metrics.result
        /\ \A f \in {"precision", "recall", "f1"} : metrics.result[f].n = 0
        /\ \A f \in {"true_positives", "false_positives", "false_negatives"} :
              metrics.result[f] = 0

\* x is the fraction n/d (d > 0), in whatever terms.
IsFraction(x, n, d) == x.d > 0 /\ x.n * d = n * x.d

\* C15: with a non-empty ground truth, tp = |keys(gt) /\ keys(pred)|,
\* fp = |keys(pred) \ keys(gt)|, fn = |keys(gt) \ keys(pred)|,
\* precision = tp/(tp+fp) or 0, recall = tp/(tp+fn) or 0,
\* f1 = 2 precision recall / (precision + recall) or 0 when both are 0.
C15_MetricsFormulas ==
    (metrics.done /\ ~ground_truth.none /\ ground_truth.list # <<>>) =>
        LET gt == ClaimKeySet(ground_truth.list)
            pred == ClaimKeySet(predictions)
            tp == Cardinality(gt \cap pred)
            fp == Cardinality(pred \ gt)
            fn == Cardinality(gt \ pred)
            r == metrics.result
        IN  /\ DOMAIN r = MetricFields
            /\ r.true_positives = tp
            /\ r.false_positives = fp
            /\ r.false_negatives = fn
            /\ IF tp + fp = 0 THEN r.precision.n = 0 ELSE IsFraction(r.precision, tp, tp + fp)
            /\ IF tp + fn = 0 THEN r.recall.n = 0 ELSE IsFraction(r.recall, tp, tp + fn)
            \* with p = tp/(tp+fp) and q = tp/(tp+fn):
            \* 2pq/(p+q) = 2 tp tp / (tp (tp+fn) + tp (tp+fp))
            /\ IF tp = 0 THEN r.f1.n = 0
               ELSE IsFraction(r.f1, 2 * tp * tp, tp * (tp + fn) + tp * (tp + fp))

\* C15 witness: one ground-truth entity and two predictions, one of which matches.
C15_Witness_OneOfTwo ==
    /\ metrics.done
    /\ ground_truth = GtList(<<EntA>>)
    /\ predictions = <<EntA, EntB>>
    /\ metrics.result.true_positives = 1
    /\ metrics.result.false_positives = 1
    /\ metrics.result.false_negatives = 0
    /\ metrics.result.precision = [n |-> 1, d |-> 2]
    /\ metrics.result.recall = [n |-> 1, d |-> 1]
    /\ metrics.result.f1 = [n |-> 2, d |-> 3]

\* The identity of the claims: the pair (name, type), a missing field being
\* the empty string.
ClaimPair(e) == <<ClaimField(e, "name"), ClaimField(e, "type")>>

NoDuplicatePairs(es) ==
    \A i, j \in 1..Len(es) : ClaimPair(es[i]) = ClaimPair(es[j]) => i = j

\* C16: for every entity list G without duplicate (name, type) entries,
\* calculate_metrics(G, G) returns precision = recall = f1 = 1.0, with
\* fp = fn = 0 and tp = |G|.  G is a ground truth that is there: the empty
\* one is the case of C14.
C16_SelfScoreIsOne ==
    (metrics.done /\ ~ground_truth.none /\ ground_truth.list # <<>>
       /\ predictions = ground_truth.list /\ NoDuplicatePairs(ground_truth.list)) =>
        /\ \A f \in {"precision", "recall", "f1"} :
              metrics.result[f].n = 1 /\ metrics.result[f].d = 1
        /\ MetricFields \subseteq DOMAIN metrics.result
        /\ metrics.result.false_positives = 0
        /\ metrics.result.false_negatives = 0
        /\ metrics.result.true_positives = Len(ground_truth.list)

(***************************************************************************)
(* Entity identity                                                         *)
(***************************************************************************)
ClaimPairSet(es) == { ClaimPair(es[i]) : i \in 1..Len(es) }

\* es with only the first occurrence of each (name, type) pair, order kept.
KeepFirstByPair(es) ==
    PickIndices(es, { i \in 1..Len(es) :
                        \A j \in 1..(i - 1) : ClaimPair(es[j]) # ClaimPair(es[i]) }, 1)

\* C20: entity identity is exactly the (name, type) pair, a missing field
\* being the empty string: the parser's deduplication merges two records, and
\* compare_entities and calculate_metrics count them as common / true
\* positive, if and only if their names are equal and their types are equal.
C20_IdentityIsNameTypePair ==
    /\ (parsed.done /\ OnlyValidBlocks(layout)) =>
          parsed.val = JArr(KeepFirstByPair(BlockEntities(layout)))
    /\ comparison.done =>
          LET b == ClaimPairSet(comparison.base)
              l == ClaimPairSet(comparison.lora)
          IN  /\ comparison.result.common = Cardinality(b \cap l)
              /\ comparison.result.base_only = Cardinality(b \ l)
              /\ comparison.result.lora_only = Cardinality(l \ b)
    /\ (metrics.done /\ metrics.computed) =>
          LET g == ClaimPairSet(ground_truth.list)
              q == ClaimPairSet(predictions)
          IN  /\ metrics.result.true_positives = Cardinality(g \cap q)
              /\ metrics.result.false_positives = Cardinality(q \ g)
              /\ metrics.result.false_negatives = Cardinality(g \ q)

(***************************************************************************)
(* Properties of the parser: reasoning section, bad matches, line fallback *)
(***************************************************************************)
KindsOf(l) == { LineOf(l.lines[i]).kind : i \in 1..Len(l.lines) }

\* The lines whose text holds a closing marker that can end the section the
\* first opening marker begins: with the opening marker in front of the
\* lines, any line with a closing marker; otherwise a line that is a
\* section of its own.
ClosingLines(l) ==
    { i \in 1..Len(l.lines) :
        LineOf(l.lines[i]).kind \in
            (IF l.think = "open" THEN {"think", "marker"} ELSE {"think"}) }

\* The text holds a reasoning pair: an opening marker and, after it, a
\* closing marker.
HasReasoningPair(l) == l.think = "closed" \/ ClosingLines(l) # {}

\* The number of the line that closes the first reasoning section (0: the
\* section closes in front of the lines).
SectionEnd(l) == IF l.think = "closed" THEN 0 ELSE Min(ClosingLines(l))

\* The entities of the valid blocks among the lines from number i on.
RECURSIVE ConcatValid(_, _)
ConcatValid(lines, i) ==
    IF i > Len(lines) THEN <<>>
    ELSE (IF LineOf(lines[i]).kind = "valid" THEN LineOf(lines[i]).ents ELSE <<>>)
           \o ConcatValid(lines, i + 1)

\* C17: if the text holds a reasoning pair (an opening <think> and its
\* corresponding closing </think>), everything up to and including the
\* closing marker is discarded and only the remainder is parsed, so no block
\* inside the reasoning section is returned; with an opening marker and no
\* closing marker, the full text is parsed.  Stated for texts of prose, valid
\* blocks and markers, with nothing but prose and valid blocks after the
\* section.
C17_ReasoningSectionDiscarded ==
    (parsed.done /\ KindsOf(layout) \subseteq {"valid", "prose", "think", "marker"}) =>
        /\ (/\ HasReasoningPair(layout)
            /\ \A i \in (SectionEnd(layout) + 1)..Len(layout.lines) :
                  LineOf(layout.lines[i]).kind \in {"valid", "prose"})
              => parsed.val =
                    JArr(KeepFirstByKey(ConcatValid(layout.lines, SectionEnd(layout) + 1)))
        /\ (layout.think = "open" /\ ~HasReasoningPair(layout))
              => parsed.val = JArr(KeepFirstByKey(<<EntT>> \o ConcatValid(layout.lines, 1)))

NothingAccumulated(id) ==
    \/ LineOf(id).kind \in {"prose", "badjson", "partial", "nofield", "extrafield",
                            "nonlist", "bracket"}
    \/ id = "block_empty"

\* The trimmed line begins with {, ends with }, parses as a document and
\* holds an entities field.
Qualifies(id) ==
    LineOf(id).kind \in {"extrafield", "nonlist", "bracket"} \/ id = "block_empty"

\* The entities value of such a line.
EntitiesValue(id) ==
    IF LineOf(id).kind = "nonlist" THEN JStr("a") ELSE JArr(LineOf(id).ents)

QualifyingLines(l) == { i \in 1..Len(l.lines) : Qualifies(l.lines[i]) }

ExpectedShape(reply) == reply.kind = "ok"

\* C11: any deviation of the reply from the expected shape (a missing field,
\* a non-2xx status, a malformed document, a message.content that is not a
\* string) makes extract_entities_single return a failed result, never a
\* successful one.
C11_ShapeDeviationFails ==
    \A e \in Endpoints :
        (task[e].pc = "done" /\ ~ExpectedShape(endpoint[e].reply)) =>
            /\ ~task[e].raised
            /\ ~task[e].result.success

\* The content holds no entity that can be parsed: prose, documents that do
\* not parse or are cut short, documents without entities.
NoEntityContent(l) ==
    /\ l.think = "none"
    /\ KindsOf(l) \subseteq {"prose", "badjson", "partial", "nofield"}

\* C12: a well-shaped reply whose content is malformed, unparseable or holds
\* no entity gives an empty but successful result (success, no entities, no
\* error message, raw response = the content); success = false comes only
\* from transport and shape failures, never from a parsing problem.
C12_ParsingProblemIsNotFailure ==
    \A e \in Endpoints :
        task[e].pc = "done" =>
            /\ ExpectedShape(endpoint[e].reply) =>
                  /\ ~task[e].raised
                  /\ task[e].result.success
                  /\ task[e].result.error_message = ""
                  /\ task[e].result.raw_response = PyStr(LayoutText(endpoint[e].reply.layout))
                  /\ NoEntityContent(endpoint[e].reply.layout) =>
                        task[e].result.entities = JArr(<<>>)
            /\ ~task[e].result.success =>
                  endpoint[e].reply.kind \in TransportFailures \cup ShapeFailures

\* C12 witness: the base endpoint answered with a block that does not parse,
\* and its result is successful and empty.
C12_Witness_UnparseableContent ==
    /\ task["base"].pc = "done"
    /\ endpoint["base"].reply =
          [kind |-> "ok", layout |-> [think |-> "none", lines |-> <<"trailing_comma">>]]
    /\ task["base"].result.success
    /\ task["base"].result.entities = JArr(<<>>)
    /\ task["base"].result.raw_response.toks # <<>>

\* Once a task has ended it stays as it is, and its endpoint gets no more request.
EndedTaskIsFinal ==
    \A e \in Endpoints :
        task[e].pc = "done" => (task'[e] = task[e] /\ endpoint'[e] = endpoint[e])

\* At each moment: at most one request per endpoint; a request that timed
\* out has ended its task with a failed result; and once the call has
\* returned both tasks have ended, after exactly one request each.
OneRequestEach ==
    /\ \A e \in Endpoints :
          /\ endpoint[e].requests <= 1
          /\ (task[e].pc = "done" /\ endpoint[e].reply.kind = "timeout") =>
                IsFailedResult(task[e].result)
    /\ main_pc = "returned" =>
          \A e \in Endpoints : task[e].pc = "done" /\ endpoint[e].requests = 1

\* C13: every extract_entities_both invocation eventually returns; a hung
\* endpoint is bounded by its request timeout, after which its task ends with
\* a failed result and no task is left running when the call returns; no
\* request is retried: one request per endpoint, a failure being final.
C13_EventuallyReturnsNoRetry ==
    /\ <>(main_pc = "returned")
    /\ []OneRequestEach
    /\ [][EndedTaskIsFinal]_vars

\* C13 witness: both endpoints timed out, and the call has returned two
\* failed results after one request each.
C13_Witness_BothTimedOut ==
    /\ main_pc = "returned"
    /\ \A e \in Endpoints :
          /\ endpoint[e].reply.kind = "timeout"
          /\ endpoint[e].requests = 1
          /\ task[e].pc = "done"
    /\ IsFailedResult(returned[1])
    /\ IsFailedResult(returned[2])

====
